---- MODULE Spec2Model ----
(***************************************************************************)
(* Model of src/src/market.py: the Market dataclass and its three          *)
(* operations should_resolve, resolve_to and resolve.                      *)
(*                                                                         *)
(* A rule is external code (rule.value(self)); it is modelled by what its  *)
(* call yields on the market at hand: a returned Python value or a raised  *)
(* exception.  Each call of rule.value is one step of the model, so that   *)
(* the order of evaluation is observable.                                  *)
(***************************************************************************)
EXTENDS Integers, Sequences, FiniteSets, TLC

(***************************************************************************)
(* Bounds of the model.                                                    *)
(***************************************************************************)
MaxGateRules == 3
MaxValueRules == 3
MaxAnswers == 3

(***************************************************************************)
(* Python values.  Every value carries its type tag t; the payload field   *)
(* is named after the type so that values of different types are           *)
(* different records.  Floats are exact rationals <<num, den>>.            *)
(***************************************************************************)
PyNone == [t |-> "NoneType"]
PyBool(b) == [t |-> "bool", b |-> b]
PyInt(i) == [t |-> "int", i |-> i]
PyFloat(q) == [t |-> "float", f |-> q]
PyStr(s) == [t |-> "str", s |-> s]
EmptyDict == [t |-> "dict", len |-> 0]
PyList(items) == [t |-> "list", items |-> items]
Answer(i, q) == [t |-> "dict", index |-> i, probability |-> q]
Response == [t |-> "Response"]

(***************************************************************************)
(* What a call yields: a returned value or a raised exception.             *)
(***************************************************************************)
Returns(v) == [k |-> "return", v |-> v]
Raises(e) == [k |-> "raise", exc |-> e]
NoOutcome == [k |-> "none"]

\* Python truth value of v (what `if v:` or any() tests).
IsTruthy(v) ==
    CASE v.t = "NoneType" -> FALSE
      [] v.t = "bool" -> v.b
      [] v.t = "int" -> v.i # 0
      [] v.t = "float" -> v.f[1] # 0
      [] v.t = "str" -> v.s # ""
      [] v.t = "dict" -> ("len" \notin DOMAIN v)
      [] OTHER -> TRUE

\* The truth test `if v:` in the place of `v is not None`.
TruthTestForNone(v) == IsTruthy(v)

\* `v is not None`.
IsNotNone(v) == v # PyNone

\* Exact comparison of two rationals <<num, den>> with positive denominators.
RatLess(a, b) == a[1] * b[2] < b[1] * a[2]

\* Rounding that takes a tie upwards.
PyRoundHalfUp(q) ==
    LET fl == q[1] \div q[2]
        r == q[1] % q[2]
    IN  IF 2 * r < q[2] THEN fl ELSE fl + 1

\* round() of a non-negative float: to the nearest integer, a tie to the
\* even one.
PyRound(q) ==
    LET fl == q[1] \div q[2]
        r == q[1] % q[2]
    IN  IF 2 * r < q[2] THEN fl
        ELSE IF 2 * r > q[2] THEN fl + 1
        ELSE IF fl % 2 = 0 THEN fl ELSE fl + 1

\* max(iterable, key=lambda x: x['probability']): one pass that keeps the
\* best element so far and replaces it only by a strictly greater one.
RECURSIVE MaxIter(_, _)
MaxIter(rest, best) ==
    IF rest = <<>> THEN best
    ELSE MaxIter(Tail(rest),
                 IF RatLess(best.probability, Head(rest).probability)
                 THEN Head(rest) ELSE best)

PyMax(answers) ==
    IF answers.t = "NoneType" THEN Raises("TypeError")
    ELSE IF answers.items = <<>> THEN Raises("ValueError")
    ELSE Returns(MaxIter(Tail(answers.items), Head(answers.items)))

\* The result without the test of isResolved.
AnyOnly(anyRes, isResolved) == anyRes

\* `any(...) and not self.market.isResolved`
ShouldResolveResult(anyRes, isResolved) == anyRes /\ ~isResolved

\* Lines 68-72: what resolve_to yields once the loop has ended.
ResolveToTail(ch, m) ==
    IF IsNotNone(ch) THEN Returns(ch)
    ELSE IF IsNotNone(m.probability)
         THEN Returns(PyBool(PyRound(m.probability.f) # 0))
         ELSE PyMax(m.answers)

(***************************************************************************)
(* Inputs.                                                                 *)
(***************************************************************************)
RuleError == Raises("RuleEvaluationError")

GateResults == {Returns(PyBool(TRUE)), Returns(PyBool(FALSE)), RuleError}

ValueResults ==
    {Returns(PyNone), Returns(PyStr("CANCEL")), Returns(PyInt(0)),
     Returns(PyFloat(<<0, 1>>)), Returns(EmptyDict), Returns(PyInt(42)),
     RuleError}

SeqsUpTo(S, n) == UNION {[1..k -> S] : k \in 0..n}

BinaryProbabilities == {<<0, 1>>, <<1, 5>>, <<1, 2>>, <<4, 5>>, <<1, 1>>}
AnswerProbabilities == {<<1, 10>>, <<1, 5>>, <<1, 2>>, <<7, 10>>}

\* answers of a free-response market: the k-th answer has index k - 1.
AnswerLists ==
    {PyList([j \in DOMAIN ps |-> Answer(j - 1, ps[j])]) :
        ps \in UNION {[1..k -> AnswerProbabilities] : k \in 1..MaxAnswers}}

ApiMarket(r, p, a) == [isResolved |-> r, probability |-> p, answers |-> a]

SampleAnswers == PyList(<<Answer(0, <<1, 10>>), Answer(1, <<7, 10>>)>>)

BinaryMarkets ==
    {ApiMarket(FALSE, PyFloat(p), a) :
        p \in BinaryProbabilities, a \in {PyNone, SampleAnswers}}
FreeResponseMarkets == {ApiMarket(FALSE, PyNone, a) : a \in AnswerLists}
NumericMarkets == {ApiMarket(FALSE, PyNone, a) : a \in {PyNone, PyList(<<>>)}}

SampleMarkets ==
    {ApiMarket(r, p, a) :
        r \in BOOLEAN,
        <<p, a>> \in {<<PyFloat(<<4, 5>>), PyNone>>, <<PyNone, SampleAnswers>>,
                      <<PyNone, PyNone>>}}

Config(m, n, g, v) ==
    [market |-> m, notes |-> n, do_resolve_rules |-> g, resolve_to_rules |-> v]

\* Many gate rules, few markets.
GateConfigs ==
    {Config(ApiMarket(r, PyFloat(<<4, 5>>), PyNone), n, g, <<>>) :
        r \in BOOLEAN, n \in {"", "resolve manually"},
        g \in SeqsUpTo(GateResults, MaxGateRules)}
\* Many value rules, few markets.
ValueConfigs ==
    {Config(m, "", <<>>, v) :
        m \in SampleMarkets, v \in SeqsUpTo(ValueResults, MaxValueRules)}
\* Many markets, value rules that have no opinion.
DefaultConfigs ==
    {Config(m, "", <<Returns(PyBool(TRUE))>>, v) :
        m \in BinaryMarkets \cup FreeResponseMarkets \cup NumericMarkets,
        v \in SeqsUpTo({Returns(PyNone)}, MaxValueRules)}

Configs == GateConfigs \cup ValueConfigs \cup DefaultConfigs

(***************************************************************************)
(* State.                                                                  *)
(***************************************************************************)
VARIABLES
    market,            \* self.market: the API snapshot
    notes,             \* self.notes
    do_resolve_rules,  \* self.do_resolve_rules
    resolve_to_rules,  \* self.resolve_to_rules
    op,                \* the method of Market the caller is in, or "none"
    pc,                \* position inside that method
    it,                \* the loop iterator: position of the next rule
    chosen,            \* local `chosen` of resolve_to
    anyResult,         \* what any(...) has yielded
    evaluated,         \* positions of the rules whose value() was called, in order
    outcome,           \* what the method yields to its caller
    calls,             \* values handed to client.resolve_market by this call
    lastResolveTo      \* outcome of the latest finished resolve_to call

frame == <<op, pc, it, chosen, anyResult, evaluated, outcome, calls>>
object == <<market, notes, do_resolve_rules, resolve_to_rules>>
vars == <<market, notes, do_resolve_rules, resolve_to_rules, op, pc, it,
          chosen, anyResult, evaluated, outcome, calls, lastResolveTo>>

NoFrame ==
    /\ op = "none"
    /\ pc = "idle"
    /\ it = 0
    /\ chosen = PyNone
    /\ anyResult = FALSE
    /\ evaluated = <<>>
    /\ outcome = NoOutcome
    /\ calls = <<>>

Init ==
    /\ \E c \in Configs :
        /\ market = c.market
        /\ notes = c.notes
        /\ do_resolve_rules = c.do_resolve_rules
        /\ resolve_to_rules = c.resolve_to_rules
    /\ NoFrame
    /\ lastResolveTo = NoOutcome

(***************************************************************************)
(* should_resolve (lines 47-50).                                           *)
(***************************************************************************)
CallShouldResolve ==
    /\ pc = "idle"
    /\ op' = "should_resolve"
    /\ pc' = "any"
    /\ it' = 1
    /\ UNCHANGED <<chosen, anyResult, evaluated, outcome, calls>>
    /\ UNCHANGED <<object, lastResolveTo>>

\* The popping variant consumes the list it iterates.
EvalGateRule_Pop ==
    /\ pc = "any"
    /\ do_resolve_rules # <<>>
    /\ LET r == Head(do_resolve_rules) IN
        /\ evaluated' = Append(evaluated, it)
        /\ do_resolve_rules' = Tail(do_resolve_rules)
        /\ IF r.k = "raise"
           THEN pc' = "done" /\ outcome' = r /\ UNCHANGED <<it, anyResult>>
           ELSE IF IsTruthy(r.v)
           THEN pc' = "and" /\ anyResult' = TRUE /\ UNCHANGED <<it, outcome>>
           ELSE it' = it + 1 /\ UNCHANGED <<pc, anyResult, outcome>>
    /\ UNCHANGED <<op, chosen, calls>>
    /\ UNCHANGED <<market, notes, resolve_to_rules, lastResolveTo>>

\* One rule.value(self) inside any(): a raise leaves the method, a true
\* value ends any() at once.
EvalGateRule ==
    /\ pc = "any"
    /\ it <= Len(do_resolve_rules)
    /\ LET r == do_resolve_rules[it] IN
        /\ evaluated' = Append(evaluated, it)
        /\ IF r.k = "raise"
           THEN pc' = "done" /\ outcome' = r /\ UNCHANGED <<it, anyResult>>
           ELSE IF IsTruthy(r.v)
           THEN pc' = "and" /\ anyResult' = TRUE /\ UNCHANGED <<it, outcome>>
           ELSE it' = it + 1 /\ UNCHANGED <<pc, anyResult, outcome>>
    /\ UNCHANGED <<op, chosen, calls>>
    /\ UNCHANGED <<object, lastResolveTo>>

\* The generator is exhausted: any() yields False.
AnyExhausted ==
    /\ pc = "any"
    /\ it > Len(do_resolve_rules)
    /\ pc' = "and"
    /\ anyResult' = FALSE
    /\ UNCHANGED <<op, it, chosen, evaluated, outcome, calls>>
    /\ UNCHANGED <<object, lastResolveTo>>

AndNotResolved ==
    /\ pc = "and"
    /\ outcome' = Returns(PyBool(ShouldResolveResult(anyResult, market.isResolved)))
    /\ pc' = "done"
    /\ UNCHANGED <<op, it, chosen, anyResult, evaluated, calls>>
    /\ UNCHANGED <<object, lastResolveTo>>

(***************************************************************************)
(* resolve_to (lines 52-72) and resolve (lines 74-82), which calls it.     *)
(***************************************************************************)
CallResolveTo ==
    /\ pc = "idle"
    /\ op' = "resolve_to"
    /\ pc' = "for"
    /\ chosen' = PyNone
    /\ it' = 1
    /\ UNCHANGED <<anyResult, evaluated, outcome, calls>>
    /\ UNCHANGED <<object, lastResolveTo>>

\* The argument self.resolve_to() of line 82 is evaluated before the call
\* of client.resolve_market.
CallResolve ==
    /\ pc = "idle"
    /\ op' = "resolve"
    /\ pc' = "for"
    /\ chosen' = PyNone
    /\ it' = 1
    /\ UNCHANGED <<anyResult, evaluated, outcome, calls>>
    /\ UNCHANGED <<object, lastResolveTo>>

\* The variant without `break`: the loop goes on after a decisive rule.
EvalValueRule_NoBreak ==
    /\ pc = "for"
    /\ it <= Len(resolve_to_rules)
    /\ LET r == resolve_to_rules[it] IN
        /\ evaluated' = Append(evaluated, it)
        /\ IF r.k = "raise"
           THEN pc' = "done" /\ outcome' = r /\ UNCHANGED <<it, chosen>>
           ELSE /\ chosen' = IF IsNotNone(chosen) THEN chosen ELSE r.v
                /\ it' = it + 1
                /\ UNCHANGED <<pc, outcome>>
    /\ UNCHANGED <<op, anyResult, calls>>
    /\ UNCHANGED <<object, lastResolveTo>>

\* The variant that catches a rule's exception and takes it for no opinion.
EvalValueRule_Swallow ==
    /\ pc = "for"
    /\ it <= Len(resolve_to_rules)
    /\ LET r == resolve_to_rules[it] IN
        /\ evaluated' = Append(evaluated, it)
        /\ chosen' = IF r.k = "raise" THEN PyNone ELSE r.v
        /\ IF IsNotNone(chosen')
           THEN pc' = "after_loop" /\ UNCHANGED it
           ELSE it' = it + 1 /\ UNCHANGED pc
    /\ UNCHANGED <<op, anyResult, outcome, calls>>
    /\ UNCHANGED <<object, lastResolveTo>>

\* The variant that consumes the list it iterates.
EvalValueRule_Pop ==
    /\ pc = "for"
    /\ resolve_to_rules # <<>>
    /\ LET r == Head(resolve_to_rules) IN
        /\ evaluated' = Append(evaluated, it)
        /\ resolve_to_rules' = Tail(resolve_to_rules)
        /\ IF r.k = "raise"
           THEN pc' = "done" /\ outcome' = r /\ UNCHANGED <<it, chosen>>
           ELSE /\ chosen' = r.v
                /\ UNCHANGED outcome
                /\ IF IsNotNone(chosen')
                   THEN pc' = "after_loop" /\ UNCHANGED it
                   ELSE it' = it + 1 /\ UNCHANGED pc
    /\ UNCHANGED <<op, anyResult, calls>>
    /\ UNCHANGED <<market, notes, do_resolve_rules, lastResolveTo>>

\* Lines 65-67, one round of the loop: chosen := rule.value(self); a raise
\* leaves resolve_to (and resolve, which does not catch it); a result that
\* is not None breaks the loop.
EvalValueRule ==
    /\ pc = "for"
    /\ it <= Len(resolve_to_rules)
    /\ LET r == resolve_to_rules[it] IN
        /\ evaluated' = Append(evaluated, it)
        /\ IF r.k = "raise"
           THEN pc' = "done" /\ outcome' = r /\ UNCHANGED <<it, chosen>>
           ELSE /\ chosen' = r.v
                /\ UNCHANGED outcome
                /\ IF IsNotNone(chosen')
                   THEN pc' = "after_loop" /\ UNCHANGED it
                   ELSE it' = it + 1 /\ UNCHANGED pc
    /\ UNCHANGED <<op, anyResult, calls>>
    /\ UNCHANGED <<object, lastResolveTo>>

\* The iterator is exhausted: the loop ends without a break.
ForExhausted ==
    /\ pc = "for"
    /\ it > Len(resolve_to_rules)
    /\ pc' = "after_loop"
    /\ UNCHANGED <<op, it, chosen, anyResult, evaluated, outcome, calls>>
    /\ UNCHANGED <<object, lastResolveTo>>

\* Lines 68-72.  Inside resolve the returned value becomes the argument of
\* client.resolve_market; an exception leaves resolve as well.
AfterLoop ==
    /\ pc = "after_loop"
    /\ outcome' = ResolveToTail(chosen, market)
    /\ pc' = IF op = "resolve" /\ outcome'.k = "return"
             THEN "resolve_market" ELSE "done"
    /\ UNCHANGED <<op, it, chosen, anyResult, evaluated, calls>>
    /\ UNCHANGED <<object, lastResolveTo>>

\* The variant of line 82 that hands over the local `chosen`.
ResolveMarket_PassChosen ==
    /\ pc = "resolve_market"
    /\ calls' = Append(calls, chosen)
    /\ \E result \in {Returns(Response), Raises("NetworkError")} :
        outcome' = result
    /\ pc' = "done"
    /\ UNCHANGED <<op, it, chosen, anyResult, evaluated>>
    /\ UNCHANGED <<object, lastResolveTo>>

\* Line 82: client.resolve_market(self.market, <value of resolve_to>); the
\* client answers or fails.
ResolveMarket ==
    /\ pc = "resolve_market"
    /\ calls' = Append(calls, outcome.v)
    /\ \E result \in {Returns(Response), Raises("NetworkError")} :
        outcome' = result
    /\ pc' = "done"
    /\ UNCHANGED <<op, it, chosen, anyResult, evaluated>>
    /\ UNCHANGED <<object, lastResolveTo>>

\* The method's frame ends and the caller has its outcome.
Return ==
    /\ pc = "done"
    /\ lastResolveTo' = IF op = "resolve_to" THEN outcome ELSE lastResolveTo
    /\ op' = "none"
    /\ pc' = "idle"
    /\ it' = 0
    /\ chosen' = PyNone
    /\ anyResult' = FALSE
    /\ evaluated' = <<>>
    /\ outcome' = NoOutcome
    /\ calls' = <<>>
    /\ UNCHANGED object

Next ==
    \/ CallShouldResolve
    \/ EvalGateRule
    \/ AnyExhausted
    \/ AndNotResolved
    \/ CallResolveTo
    \/ CallResolve
    \/ EvalValueRule
    \/ ForExhausted
    \/ AfterLoop
    \/ ResolveMarket
    \/ Return

Spec == Init /\ [][Next]_vars

(***************************************************************************)
(* Vocabulary of the properties, stated on the inputs alone.               *)
(***************************************************************************)
AllReturn(rules) == \A i \in DOMAIN rules : rules[i].k = "return"

NoOpinion(rules) == \A i \in DOMAIN rules : rules[i] = Returns(PyNone)

\* Rule k returns a result that is not None and every rule before it
\* returns None.
Decisive(rules, k) ==
    /\ rules[k].k = "return"
    /\ rules[k].v # PyNone
    /\ \A j \in 1..(k - 1) : rules[j] = Returns(PyNone)

\* Rule k raises and every rule before it returns None.
RaisesFirst(rules, k) ==
    /\ rules[k].k = "raise"
    /\ \A j \in 1..(k - 1) : rules[j] = Returns(PyNone)

IsBinary(m) == m.probability # PyNone
IsFreeResponse(m) ==
    m.probability = PyNone /\ m.answers # PyNone /\ m.answers.items # <<>>
IsNumeric(m) ==
    m.probability = PyNone /\ (m.answers = PyNone \/ m.answers.items = <<>>)

\* Position of the greatest probability, the lowest such position on a tie.
FirstMaxPosition(items) ==
    CHOOSE i \in DOMAIN items :
        \A j \in DOMAIN items :
            /\ ~RatLess(items[i].probability, items[j].probability)
            /\ j < i => RatLess(items[j].probability, items[i].probability)

\* The value resolve_to hands back, where it hands one back.
ValueOfResolveTo(m, rules) ==
    IF \E k \in DOMAIN rules : Decisive(rules, k)
    THEN rules[CHOOSE k \in DOMAIN rules : Decisive(rules, k)].v
    ELSE IF IsBinary(m) THEN PyBool(RatLess(<<1, 2>>, m.probability.f))
    ELSE m.answers.items[FirstMaxPosition(m.answers.items)]

ResolveToFails(m, rules) ==
    \/ \E k \in DOMAIN rules : RaisesFirst(rules, k)
    \/ NoOpinion(rules) /\ IsNumeric(m)

InShouldResolve == op = "should_resolve"
InResolveTo == op = "resolve_to"
Finished == pc = "done"

(***************************************************************************)
(* C1: with gate rules that all return booleans, should_resolve returns    *)
(* true exactly when the market is not resolved and some gate rule         *)
(* returns true; so false for a resolved market and for no gate rules.     *)
(***************************************************************************)
C1_ShouldResolveIsAnyAndNotResolved ==
    (InShouldResolve /\ Finished /\ AllReturn(do_resolve_rules)) =>
        outcome = Returns(PyBool(
            /\ ~market.isResolved
            /\ \E i \in DOMAIN do_resolve_rules :
                do_resolve_rules[i] = Returns(PyBool(TRUE))))

C1_Witness ==
    /\ InShouldResolve /\ Finished
    /\ market.isResolved
    /\ Len(do_resolve_rules) >= 2
    /\ \A i \in DOMAIN do_resolve_rules :
        do_resolve_rules[i] = Returns(PyBool(TRUE))
    /\ outcome = Returns(PyBool(FALSE))

(***************************************************************************)
(* C2: when some value rule returns a result that is not None (the rules   *)
(* before it returning None), resolve_to returns that rule's result        *)
(* unchanged, whatever it is ("CANCEL", 0, 0.0, {}) and whatever later     *)
(* rules would return.                                                     *)
(***************************************************************************)
C2_FirstNonAbsentResultIsReturned ==
    (InResolveTo /\ Finished) =>
        \A k \in DOMAIN resolve_to_rules :
            Decisive(resolve_to_rules, k) => outcome = resolve_to_rules[k]

C2_Witness ==
    /\ InResolveTo /\ Finished
    /\ resolve_to_rules =
        <<Returns(PyNone), Returns(PyStr("CANCEL")), Returns(PyInt(42))>>
    /\ outcome = Returns(PyStr("CANCEL"))

(***************************************************************************)
(* C3: within one call of resolve_to the value rules are evaluated in      *)
(* list order, each at most once, and none after the first rule that       *)
(* returned a result that is not None.                                     *)
(***************************************************************************)
C3_InOrderOnceAndNoneAfterDecisive ==
    (op \in {"resolve_to", "resolve"}) =>
        \A j \in DOMAIN evaluated :
            /\ evaluated[j] = j
            /\ j <= Len(resolve_to_rules)
            /\ j < Len(evaluated) => resolve_to_rules[j] = Returns(PyNone)

C3_Witness ==
    /\ InResolveTo /\ Finished
    /\ Len(resolve_to_rules) = 3
    /\ evaluated = <<1, 2>>
    /\ Decisive(resolve_to_rules, 2)
    /\ resolve_to_rules[3] # Returns(PyNone)

(***************************************************************************)
(* C4: with no opinion from the value rules and a free-response market,    *)
(* resolve_to returns the index of the answer of greatest probability,     *)
(* the first such answer on a tie.                                         *)
(***************************************************************************)
C4_DefaultIsIndexOfFirstMaxAnswer ==
    (InResolveTo /\ Finished /\ NoOpinion(resolve_to_rules)
        /\ IsFreeResponse(market)) =>
        outcome = Returns(PyInt(
            market.answers.items[FirstMaxPosition(market.answers.items)].index))

C6_NumericDefaultFailsWithNoDefaultAvailable ==
    (InResolveTo /\ Finished /\ NoOpinion(resolve_to_rules)
        /\ IsNumeric(market)) =>
        outcome = Raises("NoDefaultAvailable")

(***************************************************************************)
(* C7: a rule that raises while resolve_to or should_resolve evaluates it  *)
(* is the last rule evaluated in that call, and the call ends with that    *)
(* rule's error, not with a result or a default.                           *)
(***************************************************************************)
C7_RuleErrorPropagates ==
    (InShouldResolve \/ InResolveTo) =>
        LET rules == IF InShouldResolve
                     THEN do_resolve_rules ELSE resolve_to_rules
        IN  \A j \in DOMAIN evaluated :
                rules[evaluated[j]].k = "raise" =>
                    /\ j = Len(evaluated)
                    /\ Finished
                    /\ outcome = rules[evaluated[j]]

C7_Witness ==
    /\ InResolveTo /\ Finished
    /\ resolve_to_rules = <<Returns(PyNone), RuleError, Returns(PyInt(42))>>
    /\ evaluated = <<1, 2>>
    /\ outcome = RuleError

(***************************************************************************)
(* C8: one invocation of resolve calls client.resolve_market at most once, *)
(* only once resolve_to has returned, with the value resolve_to returned;  *)
(* when resolve_to fails the call is not made.                             *)
(***************************************************************************)
C8_ResolveCallsClientOnceWithValue ==
    (op = "resolve") =>
        /\ Len(calls) <= 1
        /\ calls # <<>> =>
            /\ Finished
            /\ ~ResolveToFails(market, resolve_to_rules)
            /\ calls = <<ValueOfResolveTo(market, resolve_to_rules)>>
        /\ (Finished /\ ResolveToFails(market, resolve_to_rules)) =>
            (calls = <<>> /\ outcome.k = "raise")
        /\ (Finished /\ ~ResolveToFails(market, resolve_to_rules)) =>
            calls # <<>>

C8_Witness ==
    /\ op = "resolve" /\ Finished
    /\ NoOpinion(resolve_to_rules) /\ resolve_to_rules # <<>>
    /\ calls = <<PyBool(TRUE)>>

(***************************************************************************)
(* C9: a call of resolve_to on the unchanged market and rules yields what  *)
(* the call of resolve_to before it yielded.                               *)
(***************************************************************************)
C9_ResolveToIsRepeatable ==
    (InResolveTo /\ Finished /\ lastResolveTo # NoOutcome) =>
        outcome = lastResolveTo

C9_Witness ==
    /\ InResolveTo /\ Finished
    /\ Len(evaluated) = 2
    /\ lastResolveTo = Returns(PyInt(0))
    /\ outcome = Returns(PyInt(0))

(***************************************************************************)
(* C10: no step of should_resolve or resolve_to changes the market         *)
(* snapshot, the notes or either rule sequence, whatever the outcome.      *)
(***************************************************************************)
C10_EvaluationHasNoSideEffect ==
    [][(op \in {"should_resolve", "resolve_to"}
            \/ op' \in {"should_resolve", "resolve_to"})
        => UNCHANGED <<market, notes, do_resolve_rules, resolve_to_rules>>]_vars

C10_Witness ==
    /\ InShouldResolve /\ Finished
    /\ notes # ""
    /\ Len(evaluated) >= 2
    /\ outcome = RuleError

====
